---- MODULE Spec2Model ----
(***************************************************************************)
(* State-machine model of SecureChannel                                    *)
(* (src/core/src/comms/secure_channel.rs): the two ends of one secure      *)
(* channel, the nonce handshake, key derivation, token expiry, chunk       *)
(* padding and the encrypt_and_sign / decrypt_and_verify pipelines.        *)
(*                                                                         *)
(* Byte buffers are sequences of byte values.  A plain byte is             *)
(* [t |-> "raw", v |-> 0..255].  The HMAC and the cipher are collaborators *)
(* outside secure_channel.rs and are modelled symbolically (perfect        *)
(* cryptography): byte i of a digest is a "mac" term over the key and the  *)
(* signed data, byte i of a ciphertext is an "enc" term over key, iv and   *)
(* plaintext.                                                              *)
(***************************************************************************)
EXTENDS Integers, Sequences, FiniteSets, TLC

VARIABLES chan, now, wire, last

vars == <<chan, now, wire, last>>

(***************************************************************************)
(* Bounds of the model                                                     *)
(***************************************************************************)
\* number of distinct values the random generator may fill a nonce with
NonceVariants == 1
\* number of distinct body fill values of a plaintext chunk
BodyVariants == 2
\* the wall clock runs from 0 to MaxTime seconds
MaxTime == 4
\* token lifetimes 0..MaxLifetime seconds
MaxLifetime == 2
\* body lengths 1..MaxBody bytes handed to calc_chunk_padding (plus probes)
MaxBody == 18
\* chunk sizes 0..MaxChunk (plus probes) handed to calc_chunk_padding
MaxChunk == 70

(***************************************************************************)
(* Enumerations                                                            *)
(***************************************************************************)
Sides == {"A", "B"}

Peer(c) == IF c = "A" THEN "B" ELSE "A"

\* MessageSecurityMode
MessageSecurityMode == {"None", "Sign", "SignAndEncrypt", "Invalid"}

\* SecurityPolicy (the named policies)
SecurityPolicy == {"None", "Basic128Rsa15", "Basic256", "Basic256Sha256"}

\* MessageChunkType
MessageChunkType == {"OpenSecureChannel", "Message", "CloseSecureChannel"}

\* Option<T>: None is the empty sequence, Some(x) the one-element sequence
None == <<>>

Some(x) == <<x>>

IsSome(o) == Len(o) = 1

Unwrap(o) == o[1]

(***************************************************************************)
(* Bytes and buffers                                                       *)
(***************************************************************************)
Raw(n) == [t |-> "raw", v |-> n]

\* vec![0u8; n]
Zeros(n) == [i \in 1..n |-> Raw(0)]

\* vec![b; n] as a plain integer byte string (nonces)
Fill(n, b) == [i \in 1..n |-> b]

\* src[from..to] with 0-based, end-exclusive Rust indices
Slice(buf, from, to) == SubSeq(buf, from + 1, to)

\* dst[from..from+len(part)].copy_from_slice(part)
Splice(buf, from, part) ==
  [i \in 1..Len(buf) |->
     IF i > from /\ i <= from + Len(part) THEN part[i - from] ELSE buf[i]]

(***************************************************************************)
(* The security policy catalog (crypto::SecurityPolicy): sizes             *)
(***************************************************************************)
\* SecurityPolicy::symmetric_key_size
symmetric_key_size(p) ==
  CASE p = "Basic128Rsa15" -> 16
    [] p = "Basic256" -> 32
    [] p = "Basic256Sha256" -> 32
    [] OTHER -> 0

\* digest length of the HMAC the policy signs with (sign / verify below pick
\* HMAC-SHA1 for Basic128Rsa15 and HMAC-SHA256 for the other two)
policy_symmetric_signature_size(p) ==
  CASE p = "Basic128Rsa15" -> 20
    [] p = "Basic256" -> 32
    [] p = "Basic256Sha256" -> 32
    [] OTHER -> 0

\* SecurityPolicy::plain_block_size
plain_block_size(p) == IF p = "None" THEN 0 ELSE 16

\* SecurityPolicy::cipher_block_size
cipher_block_size(p) == IF p = "None" THEN 0 ELSE 16

\* one slice of the pseudo-random stream PRF(secret, seed): a symbolic term
PRF(secret, seed, length, offset) ==
  [secret |-> secret, seed |-> seed, length |-> length, offset |-> offset]

\* SecurityPolicy::make_secure_channel_keys(secret, seed):
\* (signing key, encrypting key, initialisation vector) cut from
\* PRF(secret, seed) at offsets 0, SigningKeyLength,
\* SigningKeyLength + EncryptingKeyLength
make_secure_channel_keys(p, secret, seed) ==
  LET sl == symmetric_key_size(p)
      el == symmetric_key_size(p)
      bl == cipher_block_size(p)
  IN [signing |-> PRF(secret, seed, sl, 0),
      encrypting |-> PRF(secret, seed, el, sl),
      iv |-> PRF(secret, seed, bl, sl + el)]

(***************************************************************************)
(* SecureChannel: construction and the small queries                       *)
(***************************************************************************)
\* SecureChannel::new() called when the clock shows t
New(t) ==
  [security_mode |-> "None",
   security_policy |-> "None",
   secure_channel_id |-> 0,
   token_id |-> 0,
   token_created_at |-> t,
   token_lifetime |-> 0,
   nonce |-> <<>>,
   their_nonce |-> <<>>,
   keys |-> None,
   their_keys |-> None]

signing_enabled(ch) ==
  ch.security_policy # "None" /\ ch.security_mode = "Sign"

encryption_enabled(ch) ==
  ch.security_policy # "None" /\ ch.security_mode = "SignAndEncrypt"

\* SecureChannel::symmetric_signature_size
symmetric_signature_size(ch) ==
  IF ch.security_policy # "None"
  THEN policy_symmetric_signature_size(ch.security_policy)
  ELSE 0

\* token_has_expired read when DateTime::now() returns t (whole seconds)
token_has_expired_gt(ch, t) ==
  t > ch.token_created_at + ch.token_lifetime

token_has_expired(ch, t) ==
  LET token_expires == ch.token_created_at + ch.token_lifetime
  IN IF t >= token_expires THEN TRUE ELSE FALSE

\* make_security_header
make_security_header(ch, message_type) ==
  IF message_type = "OpenSecureChannel"
  THEN [kind |-> "Asymmetric", token_id |-> 0]
  ELSE [kind |-> "Symmetric", token_id |-> ch.token_id]

\* the nonce create_random_nonce stores when the generator fills with byte r
create_random_nonce(ch, r) ==
  IF signing_enabled(ch) \/ encryption_enabled(ch)
  THEN Fill(symmetric_key_size(ch.security_policy), r)
  ELSE Fill(1, 0)

\* set_their_nonce: the status and the value of their_nonce afterwards
set_their_nonce_unchecked(ch, bs) ==
  IF IsSome(bs.value)
  THEN [status |-> "Ok", their_nonce |-> Unwrap(bs.value)]
  ELSE [status |-> "BadNonceInvalid", their_nonce |-> ch.their_nonce]

set_their_nonce(ch, bs) ==
  IF IsSome(bs.value)
  THEN IF (signing_enabled(ch) \/ encryption_enabled(ch))
          /\ Len(Unwrap(bs.value)) # symmetric_key_size(ch.security_policy)
       THEN [status |-> "BadNonceInvalid", their_nonce |-> ch.their_nonce]
       ELSE [status |-> "Ok", their_nonce |-> Unwrap(bs.value)]
  ELSE [status |-> "BadNonceInvalid", their_nonce |-> ch.their_nonce]

\* derive_keys: the two key sets it stores
derive_keys_their_only(ch) ==
  [keys |-> ch.keys,
   their_keys |-> Some(make_secure_channel_keys(ch.security_policy,
                                                ch.their_nonce, ch.nonce))]

\* a derivation that cuts both key sets from PRF(nonce, their_nonce)
derive_keys_one_stream(ch) ==
  [keys |-> Some(make_secure_channel_keys(ch.security_policy,
                                          ch.nonce, ch.their_nonce)),
   their_keys |-> Some(make_secure_channel_keys(ch.security_policy,
                                                ch.nonce, ch.their_nonce))]

derive_keys(ch) ==
  [keys |-> Some(make_secure_channel_keys(ch.security_policy,
                                          ch.nonce, ch.their_nonce)),
   their_keys |-> Some(make_secure_channel_keys(ch.security_policy,
                                                ch.their_nonce, ch.nonce))]

(***************************************************************************)
(* calc_chunk_padding                                                      *)
(*                                                                         *)
(* usize is 64 bits wide.  A subtraction below zero or a product past      *)
(* 2^64 - 1 aborts the call when the build checks overflow (the debug      *)
(* profile) and wraps modulo 2^64 when it does not (the release profile):  *)
(* overflow_checks selects the build.  A negative integer n stands for the *)
(* wrapped usize value 2^64 + n.                                           *)
(***************************************************************************)
\* comms::MESSAGE_CHUNK_HEADER_SIZE
MESSAGE_CHUNK_HEADER_SIZE == 12

\* comms::SEQUENCE_HEADER_SIZE
SEQUENCE_HEADER_SIZE == 8

\* SecurityHeader::byte_len
byte_len(security_header) ==
  IF security_header.kind = "Symmetric" THEN 4 ELSE 59

\* a > b on usize values
UGt(a, b) ==
  IF (a >= 0) = (b >= 0) THEN a > b ELSE a < 0

\* lines 162-175: [status, v]
max_body_size(ch, security_header, message_chunk_size, overflow_checks) ==
  IF message_chunk_size # 0
  THEN LET signature_size == policy_symmetric_signature_size(ch.security_policy)
           plain_text_block_size == plain_block_size(ch.security_policy)
           cipher_text_block_size == cipher_block_size(ch.security_policy)
           header_size == MESSAGE_CHUNK_HEADER_SIZE + byte_len(security_header)
           sequence_header_size == SEQUENCE_HEADER_SIZE
           d == message_chunk_size - header_size - signature_size - 1
       IN IF d < 0
          THEN \* the subtraction underflows.  Wrapped, 2^64 + d converts to
               \* the f64 2^64 (|d| <= 1024), floor(2^64 / 16) = 2^60, and
               \* 16 * 2^60 overflows to 0, less 8 wraps to 2^64 - 8
               IF overflow_checks
               THEN [status |-> "panic", v |-> 0]
               ELSE [status |-> "Ok", v |-> 0 - sequence_header_size]
          ELSE LET q == plain_text_block_size * (d \div cipher_text_block_size)
               IN IF q - sequence_header_size < 0
                  THEN IF overflow_checks
                       THEN [status |-> "panic", v |-> 0]
                       ELSE [status |-> "Ok", v |-> q - sequence_header_size]
                  ELSE [status |-> "Ok", v |-> q - sequence_header_size]
  ELSE [status |-> "Ok", v |-> 0]

\* the padding formula of line 180 with the + 1 of the padding-size byte left out
padding_size_no_size_byte(ch, bytes_to_write) ==
  LET signature_size == policy_symmetric_signature_size(ch.security_policy)
      plain_text_block_size == plain_block_size(ch.security_policy)
  IN plain_text_block_size
       - ((bytes_to_write + signature_size) % plain_text_block_size)

\* line 180
padding_size(ch, bytes_to_write) ==
  LET signature_size == policy_symmetric_signature_size(ch.security_policy)
      plain_text_block_size == plain_block_size(ch.security_policy)
  IN plain_text_block_size
       - ((bytes_to_write + signature_size + 1) % plain_text_block_size)

\* calc_chunk_padding: [status, ret]
calc_chunk_padding(ch, bytes_to_write, security_header, message_chunk_size, overflow_checks) ==
  IF ch.security_policy # "None" /\ ch.security_mode # "None"
  THEN LET mb == max_body_size(ch, security_header, message_chunk_size,
                               overflow_checks)
       IN IF mb.status # "Ok"
          THEN [status |-> "panic", ret |-> 0]
          ELSE IF mb.v # 0 /\ UGt(bytes_to_write, mb.v)
               THEN [status |-> "Ok", ret |-> 0]
               ELSE [status |-> "Ok", ret |-> padding_size(ch, bytes_to_write)]
  ELSE [status |-> "Ok", ret |-> 0]

(***************************************************************************)
(* The collaborators: HMAC and the symmetric cipher, as symbolic terms     *)
(***************************************************************************)
\* length of the digest of hash::hmac_sha1 / hash::hmac_sha256
digest_size(alg) == IF alg = "sha1" THEN 20 ELSE 32

\* hash::hmac_sha1 / hash::hmac_sha256 filling a signature buffer of n bytes
hmac(alg, key, data, n) ==
  [i \in 1..n |-> [t |-> "mac", i |-> i, alg |-> alg, k |-> key, d |-> data]]

\* hash::verify_hmac_sha1 / hash::verify_hmac_sha256
verify_hmac(alg, key, data, signature) ==
  /\ Len(signature) = digest_size(alg)
  /\ signature = hmac(alg, key, data, Len(signature))

\* AesKey::encrypt: the ciphertext of a whole number of blocks
aes_encrypt(key, iv, plain) ==
  [ok |-> Len(plain) % 16 = 0,
   out |-> [i \in 1..Len(plain) |->
              [t |-> "enc", i |-> i, k |-> key, iv |-> iv, p |-> plain]]]

\* is cipher the ciphertext aes_encrypt makes under (key, iv) of some plaintext
IsCiphertextOf(cipher, key, iv) ==
  /\ Len(cipher) > 0
  /\ cipher[1].t = "enc"
  /\ cipher = aes_encrypt(key, iv, cipher[1].p).out

\* AesKey::decrypt: the plaintext when cipher was made under the same key and
\* iv, bytes unrelated to any plaintext otherwise
aes_decrypt(key, iv, cipher) ==
  [ok |-> Len(cipher) % 16 = 0,
   out |-> IF IsCiphertextOf(cipher, key, iv)
           THEN cipher[1].p
           ELSE [i \in 1..Len(cipher) |->
                   [t |-> "dec", i |-> i, k |-> key, iv |-> iv, c |-> cipher]]]

(***************************************************************************)
(* sign, verify, encrypt, decrypt (private helpers of SecureChannel)       *)
(***************************************************************************)
\* a policy check that lets every policy through
expect_any_security_policy(ch) == TRUE

\* expect_supported_security_policy: TRUE when it returns, FALSE when it panics
expect_supported_security_policy(ch) ==
  ch.security_policy \in {"Basic128Rsa15", "Basic256", "Basic256Sha256"}

\* the HMAC sign and verify select for the policy
hmac_alg(p) == IF p = "Basic128Rsa15" THEN "sha1" ELSE "sha256"

\* sign(src, signature) with a signature buffer of n bytes: [status, signature]
sign(ch, src, n) ==
  IF ~IsSome(ch.keys)
     \/ ch.security_policy \notin {"Basic128Rsa15", "Basic256", "Basic256Sha256"}
  THEN [status |-> "panic", signature |-> Zeros(n)]
  ELSE [status |-> "Ok",
        signature |-> hmac(hmac_alg(ch.security_policy),
                           Unwrap(ch.keys).signing, src, n)]

\* verify that accepts every signature
verify_accept_all(ch, src, signature) ==
  IF ~IsSome(ch.their_keys)
     \/ ch.security_policy \notin {"Basic128Rsa15", "Basic256", "Basic256Sha256"}
  THEN "panic"
  ELSE "Ok"

\* verify(src, signature): the status
verify(ch, src, signature) ==
  IF ~IsSome(ch.their_keys)
     \/ ch.security_policy \notin {"Basic128Rsa15", "Basic256", "Basic256Sha256"}
  THEN "panic"
  ELSE IF verify_hmac(hmac_alg(ch.security_policy),
                      Unwrap(ch.their_keys).signing, src, signature)
       THEN "Ok"
       ELSE "BadApplicationSignatureInvalid"

\* encrypt(src, dst): [status, out]
encrypt(ch, src) ==
  IF ~IsSome(ch.keys)
  THEN [status |-> "panic", out |-> <<>>]
  ELSE LET keys == Unwrap(ch.keys)
           result == aes_encrypt(keys.encrypting, keys.iv, src)
       IN IF result.ok
          THEN [status |-> "Ok", out |-> result.out]
          ELSE [status |-> "BadEncodingError", out |-> <<>>]

\* decrypt(src, dst): [status, out]
decrypt(ch, src) ==
  IF ~IsSome(ch.their_keys)
  THEN [status |-> "panic", out |-> <<>>]
  ELSE LET keys == Unwrap(ch.their_keys)
           result == aes_decrypt(keys.encrypting, keys.iv, src)
       IN IF result.ok
          THEN [status |-> "Ok", out |-> result.out]
          ELSE [status |-> "BadDecodingError", out |-> <<>>]

(***************************************************************************)
(* encrypt_and_sign and decrypt_and_verify                                 *)
(*                                                                         *)
(* Both return [status, dst]: the status code (or "panic" when the call    *)
(* aborts) and the destination buffer as the call leaves it.  The callers  *)
(* modelled pass ranges inside src (s_from <= s_to <= len(src),            *)
(* e_from <= e_to <= len(src)); the length of dst is theirs to choose.     *)
(* copy_from_slice aborts unless both slices have the same length, and a   *)
(* slice past the end of its buffer aborts.                                *)
(***************************************************************************)
Res(status, dst) == [status |-> status, dst |-> dst]

\* lines 301-313
encrypt_and_sign_Sign(ch, src, sign_info, dst) ==
  LET s_from == sign_info[1]
      s_to == sign_info[2]
      signature_len == Len(src) - s_to
      signed == sign(ch, Slice(src, s_from, s_to), signature_len)
      dst1 == Splice(dst, 0, Slice(src, 0, s_to))
  IN IF ~expect_supported_security_policy(ch) THEN Res("panic", dst)
     ELSE IF signed.status # "Ok" THEN Res(signed.status, dst)
     ELSE IF s_to > Len(dst) THEN Res("panic", dst)
     ELSE IF Len(dst) - s_to # signature_len THEN Res("panic", dst1)
     ELSE Res("Ok", Splice(dst1, s_to, signed.signature))

\* lines 314-339 without the test of lines 319-322
encrypt_and_sign_SignAndEncrypt_unguarded(ch, src, sign_info, encrypt_info, dst) ==
  LET s_from == sign_info[1]
      s_to == sign_info[2]
      e_from == encrypt_info[1]
      e_to == encrypt_info[2]
      signature_len == Len(src) - s_to
      signed == sign(ch, Slice(src, s_from, s_to), signature_len)
      dst_tmp1 == Splice(Zeros(Len(dst) + 16), 0, Slice(src, 0, s_to))
      dst_tmp2 == Splice(dst_tmp1, s_to, signed.signature)
      encrypted == encrypt(ch, Slice(dst_tmp2, e_from, e_to))
      dst1 == Splice(dst, e_from, encrypted.out)
  IN IF ~expect_supported_security_policy(ch) THEN Res("panic", dst)
     ELSE IF signed.status # "Ok" THEN Res(signed.status, dst)
     ELSE IF s_to > Len(dst) + 16 THEN Res("panic", dst)
     ELSE IF Len(dst) + 16 - s_to # signature_len THEN Res("panic", dst)
     ELSE IF e_to > Len(dst) THEN Res("panic", dst)
     ELSE IF encrypted.status # "Ok" THEN Res(encrypted.status, dst)
     ELSE Res("Ok", Splice(dst1, 0, Slice(dst_tmp2, 0, e_from)))

\* lines 314-339
encrypt_and_sign_SignAndEncrypt(ch, src, sign_info, encrypt_info, dst) ==
  LET s_from == sign_info[1]
      s_to == sign_info[2]
      e_from == encrypt_info[1]
      e_to == encrypt_info[2]
      signature_len == Len(src) - s_to
      signed == sign(ch, Slice(src, s_from, s_to), signature_len)
      dst_tmp1 == Splice(Zeros(Len(dst) + 16), 0, Slice(src, 0, s_to))
      dst_tmp2 == Splice(dst_tmp1, s_to, signed.signature)
      encrypted == encrypt(ch, Slice(dst_tmp2, e_from, e_to))
      dst1 == Splice(dst, e_from, encrypted.out)
  IN IF ~expect_supported_security_policy(ch) THEN Res("panic", dst)
     ELSE IF (e_to - e_from) % 16 # 0 THEN Res("BadDecodingError", dst)
     ELSE IF signed.status # "Ok" THEN Res(signed.status, dst)
     ELSE IF s_to > Len(dst) + 16 THEN Res("panic", dst)
     ELSE IF Len(dst) + 16 - s_to # signature_len THEN Res("panic", dst)
     ELSE IF e_to > Len(dst) THEN Res("panic", dst)
     ELSE IF encrypted.status # "Ok" THEN Res(encrypted.status, dst)
     ELSE Res("Ok", Splice(dst1, 0, Slice(dst_tmp2, 0, e_from)))

\* encrypt_and_sign(src, sign_info, encrypt_info, dst)
encrypt_and_sign(ch, src, sign_info, encrypt_info, dst) ==
  CASE ch.security_mode = "None" ->
         IF Len(dst) # Len(src) THEN Res("panic", dst) ELSE Res("Ok", src)
    [] ch.security_mode = "Sign" ->
         encrypt_and_sign_Sign(ch, src, sign_info, dst)
    [] ch.security_mode = "SignAndEncrypt" ->
         encrypt_and_sign_SignAndEncrypt(ch, src, sign_info, encrypt_info, dst)
    [] OTHER -> Res("panic", dst)

\* lines 364-374
decrypt_and_verify_Sign(ch, src, sign_info, dst) ==
  LET s_from == sign_info[1]
      s_to == sign_info[2]
      len == Len(src)
      dst1 == Splice(dst, 0, src)
      verified == verify(ch, Slice(dst1, s_from, s_to),
                         Slice(dst1, s_to, Len(dst1)))
  IN IF ~expect_supported_security_policy(ch) THEN Res("panic", dst)
     ELSE IF len > Len(dst) THEN Res("panic", dst)
     ELSE Res(verified, dst1)

\* lines 375-395
decrypt_and_verify_SignAndEncrypt(ch, src, sign_info, encrypt_info, dst) ==
  LET s_from == sign_info[1]
      s_to == sign_info[2]
      e_from == encrypt_info[1]
      e_to == encrypt_info[2]
      dst1 == Splice(dst, 0, Slice(src, 0, e_from))
      decrypted == decrypt(ch, Slice(src, e_from, e_to))
      dst2 == Splice(dst1, e_from, decrypted.out)
      verified == verify(ch, Slice(dst2, s_from, s_to),
                         Slice(dst2, s_to, Len(dst2)))
  IN IF ~expect_supported_security_policy(ch) THEN Res("panic", dst)
     ELSE IF (e_to - e_from) % 16 # 0 THEN Res("BadDecodingError", dst)
     ELSE IF e_from > Len(dst) THEN Res("panic", dst)
     ELSE IF decrypted.status # "Ok" THEN Res(decrypted.status, dst1)
     ELSE IF e_to > Len(dst) THEN Res("panic", dst1)
     ELSE IF s_to > Len(dst) THEN Res("panic", dst2)
     ELSE Res(verified, dst2)

\* decrypt_and_verify(src, sign_info, encrypt_info, dst)
decrypt_and_verify(ch, src, sign_info, encrypt_info, dst) ==
  CASE ch.security_mode = "None" ->
         IF Len(src) > Len(dst) THEN Res("panic", dst)
         ELSE Res("Ok", Splice(dst, 0, src))
    [] ch.security_mode = "Sign" ->
         decrypt_and_verify_Sign(ch, src, sign_info, dst)
    [] ch.security_mode = "SignAndEncrypt" ->
         decrypt_and_verify_SignAndEncrypt(ch, src, sign_info, encrypt_info, dst)
    [] OTHER -> Res("panic", dst)

(***************************************************************************)
(* Callers' inputs                                                         *)
(***************************************************************************)
\* ByteString: value is None or Some(bytes)
ByteString(o) == [value |-> o]

\* length of the headers in front of the sequence header of a symmetric chunk
HeaderLen == MESSAGE_CHUNK_HEADER_SIZE + byte_len([kind |-> "Symmetric", token_id |-> 0])

\* bytes_to_write of the sample chunk: sequence header and a one-byte body
SampleBytes == SEQUENCE_HEADER_SIZE + 1

\* signature bytes a chunk of this channel carries
LayoutSignature(ch) ==
  IF ch.security_mode = "None" THEN 0 ELSE symmetric_signature_size(ch)

\* padding-size byte and padding of the sample chunk
LayoutPadding(ch) ==
  IF ch.security_policy # "None" /\ ch.security_mode # "None"
  THEN 1 + padding_size(ch, SampleBytes)
  ELSE 0

\* total length of the sample chunk: S/E layout of lines 285-290
LayoutLen(ch) == HeaderLen + SampleBytes + LayoutPadding(ch) + LayoutSignature(ch)

\* a plaintext chunk: headers, sequence header, body byte b, padding, and a
\* zeroed signature area
Layout(ch, b) ==
  [i \in 1..LayoutLen(ch) |->
     IF i <= HeaderLen + SEQUENCE_HEADER_SIZE THEN Raw(i)
     ELSE IF i <= HeaderLen + SampleBytes THEN Raw(b)
     ELSE IF i <= LayoutLen(ch) - LayoutSignature(ch) THEN Raw(LayoutPadding(ch) - 1)
     ELSE Raw(0)]

\* sign_info of the sample chunk: everything in front of the signature
LayoutSignInfo(ch) == <<0, LayoutLen(ch) - LayoutSignature(ch)>>

\* encrypt_info the caller may pass: the range from the sequence header to the
\* end of the signature, that range cut short by one byte, and cut short by
\* one block
EncryptInfos(ch) ==
  {<<HeaderLen, LayoutLen(ch)>>, <<HeaderLen, LayoutLen(ch) - 1>>}
    \cup (IF LayoutLen(ch) - 16 >= HeaderLen
          THEN {<<HeaderLen, LayoutLen(ch) - 16>>} ELSE {})

LayoutEncryptInfo(ch) == <<HeaderLen, LayoutLen(ch)>>

\* lengths of the destination buffer the caller may pass
DstLens(n) == {n, n + 16} \cup (IF n >= 16 THEN {n - 16} ELSE {})

\* one bit of a byte inverted
FlipBit(byte, k) ==
  IF byte.t = "raw"
  THEN Raw(IF (byte.v \div (2 ^ k)) % 2 = 1 THEN byte.v - 2 ^ k ELSE byte.v + 2 ^ k)
  ELSE [t |-> "flipped", k |-> k, b |-> byte]

\* the bits of a byte (u8)
FlipBits == 0..7

\* the byte the random generator of end c fills a nonce with on its r-th
\* outcome: the two ends draw different bytes
SideFill(c, r) == IF c = "A" THEN r ELSE NonceVariants + r

\* buf with bit k of its byte at 0-based position pos inverted
Flip(buf, pos, k) == [buf EXCEPT ![pos + 1] = FlipBit(buf[pos + 1], k)]

(***************************************************************************)
(* State                                                                   *)
(*   chan  the SecureChannel of each end                                   *)
(*   now   the wall clock, in seconds                                      *)
(*   wire  the last chunk encrypt_and_sign produced, in flight to the peer *)
(*   last  the last operation called, its arguments and what it returned   *)
(*         (src is left empty when the argument was the chunk in flight)   *)
(***************************************************************************)
NoWire == [from |-> "-", buf |-> <<>>, x |-> <<>>, s |-> <<0, 0>>, e |-> <<0, 0>>]

Call(op, c) ==
  [op |-> op, side |-> c, status |-> "Ok", ret |-> 0, flag |-> FALSE,
   kind |-> "-", bs |-> ByteString(None),
   bytes_to_write |-> 0, message_chunk_size |-> 0, overflow_checks |-> FALSE,
   src |-> <<>>, dst |-> <<>>, dst_len |-> 0, s |-> <<0, 0>>, e |-> <<0, 0>>,
   flip |-> <<>>, from_wire |-> FALSE, at |-> 0]

Init ==
  /\ now = 0
  /\ chan = [c \in Sides |-> New(now)]
  /\ wire = NoWire
  /\ last = Call("new", "-")

(***************************************************************************)
(* Operations                                                              *)
(***************************************************************************)
\* the owning layer sets the negotiated mode and policy on both ends of a
\* channel it has just constructed (the fields are public)
Configure(mode, policy) ==
  /\ \A c \in Sides : chan[c] = New(chan[c].token_created_at)
  /\ last.op = "new"
  /\ chan' = [c \in Sides |->
                [chan[c] EXCEPT !.security_mode = mode, !.security_policy = policy]]
  /\ last' = Call("configure", "-")
  /\ UNCHANGED <<now, wire>>

\* the owning layer issues a token: token_created_at, token_lifetime, token_id
IssueToken(c, lifetime, id) ==
  /\ chan' = [chan EXCEPT ![c].token_created_at = now,
                          ![c].token_lifetime = lifetime,
                          ![c].token_id = id]
  /\ last' = [Call("issue_token", c) EXCEPT !.at = now]
  /\ UNCHANGED <<now, wire>>

\* one second passes
Tick ==
  /\ now < MaxTime
  /\ now' = now + 1
  /\ last' = [Call("tick", "-") EXCEPT !.at = now']
  /\ UNCHANGED <<chan, wire>>

CreateRandomNonce(c, r) ==
  /\ chan' = [chan EXCEPT ![c].nonce = create_random_nonce(chan[c], r)]
  /\ last' = Call("create_random_nonce", c)
  /\ UNCHANGED <<now, wire>>

SetTheirNonce(c, bs) ==
  LET r == set_their_nonce(chan[c], bs)
  IN /\ chan' = [chan EXCEPT ![c].their_nonce = r.their_nonce]
     /\ last' = [Call("set_their_nonce", c) EXCEPT
                   !.status = r.status, !.bs = bs]
     /\ UNCHANGED <<now, wire>>

DeriveKeys(c) ==
  LET r == derive_keys(chan[c])
  IN /\ chan' = [chan EXCEPT ![c].keys = r.keys, ![c].their_keys = r.their_keys]
     /\ last' = Call("derive_keys", c)
     /\ UNCHANGED <<now, wire>>

MakeSecurityHeader(c, message_type) ==
  LET h == make_security_header(chan[c], message_type)
  IN /\ last' = [Call("make_security_header", c) EXCEPT
                   !.kind = h.kind, !.ret = h.token_id]
     /\ UNCHANGED <<chan, now, wire>>

TokenHasExpired(c) ==
  /\ last' = [Call("token_has_expired", c) EXCEPT
                !.flag = token_has_expired(chan[c], now), !.at = now]
  /\ UNCHANGED <<chan, now, wire>>

CalcChunkPadding(c, bytes_to_write, message_type, message_chunk_size, overflow_checks) ==
  LET h == make_security_header(chan[c], message_type)
      r == calc_chunk_padding(chan[c], bytes_to_write, h, message_chunk_size,
                              overflow_checks)
  IN /\ last' = [Call("calc_chunk_padding", c) EXCEPT
                   !.status = r.status, !.ret = r.ret, !.kind = h.kind,
                   !.bytes_to_write = bytes_to_write,
                   !.message_chunk_size = message_chunk_size,
                   !.overflow_checks = overflow_checks]
     /\ UNCHANGED <<chan, now, wire>>

EncryptAndSign(c, src, sign_info, encrypt_info, dst_len) ==
  LET r == encrypt_and_sign(chan[c], src, sign_info, encrypt_info, Zeros(dst_len))
  IN /\ last' = [Call("encrypt_and_sign", c) EXCEPT
                   !.status = r.status, !.src = src, !.dst = r.dst,
                   !.dst_len = dst_len, !.s = sign_info, !.e = encrypt_info]
     /\ wire' = IF r.status = "Ok"
                THEN [from |-> c, buf |-> r.dst, x |-> src,
                      s |-> sign_info, e |-> encrypt_info]
                ELSE wire
     /\ UNCHANGED <<chan, now>>

DecryptAndVerify(c, src, sign_info, encrypt_info, dst_len, flip, from_wire) ==
  LET r == decrypt_and_verify(chan[c], src, sign_info, encrypt_info, Zeros(dst_len))
  IN /\ last' = [Call("decrypt_and_verify", c) EXCEPT
                   !.status = r.status, !.dst = r.dst,
                   !.src = IF from_wire THEN <<>> ELSE src,
                   !.dst_len = dst_len, !.s = sign_info, !.e = encrypt_info,
                   !.flip = flip, !.from_wire = from_wire]
     /\ UNCHANGED <<chan, now, wire>>

(***************************************************************************)
(* A call that left chan, now and wire as they were.  Whatever can follow  *)
(* such a call can follow the state it was made in, so the next-state      *)
(* relations below explore it as the last step of a behaviour: the states  *)
(* reached are the same, and the state graph stays small.                  *)
(***************************************************************************)
ReadOnly(l) ==
  \/ l.op \in {"make_security_header", "token_has_expired",
               "calc_chunk_padding", "decrypt_and_verify"}
  \/ l.op \in {"encrypt_and_sign", "set_their_nonce"} /\ l.status # "Ok"

Ready == ~ReadOnly(last)

(***************************************************************************)
(* Spec: one SecureChannel ("A") under every sequence of its operations;   *)
(* the peer's nonce is whatever byte string the owning layer hands over.   *)
(***************************************************************************)
\* byte strings handed to set_their_nonce: absent, empty, the channel's own
\* nonce reflected, and peer nonces of 1, 16 and 32 bytes
TheirNonceInputs(c) ==
  {ByteString(None), ByteString(Some(<<>>)), ByteString(Some(chan[c].nonce))}
    \cup {ByteString(Some(Fill(n, 10 + r))) :
            n \in {1, 16, 32}, r \in 1..NonceVariants}

Next ==
  \/ /\ Ready
     /\ \E m \in MessageSecurityMode, p \in SecurityPolicy : Configure(m, p)
  \/ /\ Ready
     /\ \E r \in 1..NonceVariants : CreateRandomNonce("A", r)
  \/ /\ Ready
     /\ \E bs \in TheirNonceInputs("A") : SetTheirNonce("A", bs)
  \/ /\ Ready
     /\ DeriveKeys("A")
  \/ /\ Ready
     /\ \E mt \in MessageChunkType : MakeSecurityHeader("A", mt)
  \/ /\ Ready
     /\ TokenHasExpired("A")
  \/ /\ Ready
     /\ \E chunk \in {0, 1, MaxChunk}, oc \in BOOLEAN :
          CalcChunkPadding("A", SampleBytes, "Message", chunk, oc)
  \/ /\ Ready
     /\ EncryptAndSign("A", Layout(chan["A"], 0), LayoutSignInfo(chan["A"]),
                       LayoutEncryptInfo(chan["A"]), LayoutLen(chan["A"]))
  \/ /\ Ready
     /\ DecryptAndVerify("A", Layout(chan["A"], 0), LayoutSignInfo(chan["A"]),
                         LayoutEncryptInfo(chan["A"]), LayoutLen(chan["A"]),
                         <<>>, FALSE)

Spec == Init /\ [][Next]_vars

(***************************************************************************)
(* SpecPair: both ends of one channel.  The owning layers run the          *)
(* handshake in protocol order (each end creates its nonce, takes the      *)
(* peer's, derives its keys), then exchange chunks; a chunk in flight may  *)
(* have one bit inverted (tried on chunks sent with the full encrypted      *)
(* range).                                                                 *)
(***************************************************************************)
Established == \A c \in Sides : IsSome(chan[c].keys)

NextPair ==
  \/ /\ Ready
     /\ \E m \in MessageSecurityMode, p \in SecurityPolicy : Configure(m, p)
  \/ /\ Ready
     /\ \E c \in Sides, r \in 1..NonceVariants :
          /\ chan[c].nonce = <<>>
          /\ CreateRandomNonce(c, SideFill(c, r))
  \/ /\ Ready
     /\ \E c \in Sides :
          /\ chan[c].their_nonce = <<>>
          /\ chan[Peer(c)].nonce # <<>>
          /\ SetTheirNonce(c, ByteString(Some(chan[Peer(c)].nonce)))
  \/ /\ Ready
     /\ \E c \in Sides :
          /\ ~IsSome(chan[c].keys)
          /\ chan[c].nonce # <<>>
          /\ chan[c].their_nonce # <<>>
          /\ DeriveKeys(c)
  \/ /\ Ready
     /\ \E c \in Sides, b \in 0..(BodyVariants - 1) :
          \E e \in EncryptInfos(chan[c]), n \in DstLens(LayoutLen(chan[c])) :
            /\ Established
            /\ EncryptAndSign(c, Layout(chan[c], b), LayoutSignInfo(chan[c]), e, n)
  \/ /\ Ready
     /\ \E c \in Sides, b \in 0..(BodyVariants - 1) :
          \E e \in EncryptInfos(chan[c]), n \in DstLens(LayoutLen(chan[c])) :
            /\ Established
            /\ DecryptAndVerify(c, Layout(chan[c], b), LayoutSignInfo(chan[c]), e, n,
                                <<>>, FALSE)
  \/ /\ Ready
     /\ \E c \in Sides, chunk \in {0, MaxChunk}, oc \in BOOLEAN :
          CalcChunkPadding(c, SampleBytes, "Message", chunk, oc)
  \/ /\ Ready
     /\ \E c \in Sides :
          /\ wire.from = Peer(c)
          /\ DecryptAndVerify(c, wire.buf, wire.s, wire.e, Len(wire.buf), <<>>, TRUE)
  \/ /\ Ready
     /\ \E c \in Sides :
          \E pos \in 0..(Len(wire.buf) - 1), k \in FlipBits :
            /\ wire.from = Peer(c)
            /\ wire.e = LayoutEncryptInfo(chan[c])
            /\ DecryptAndVerify(c, Flip(wire.buf, pos, k), wire.s, wire.e,
                                Len(wire.buf), <<pos, k>>, TRUE)

SpecPair == Init /\ [][NextPair]_vars

(***************************************************************************)
(* SpecPad: calc_chunk_padding over body lengths, headers and chunk sizes  *)
(***************************************************************************)
NextPad ==
  \/ /\ Ready
     /\ \E m \in MessageSecurityMode, p \in SecurityPolicy : Configure(m, p)
  \/ /\ Ready
     /\ \E n \in 1..MaxBody, mt \in {"OpenSecureChannel", "Message"} :
          \E chunk \in 0..MaxChunk, oc \in BOOLEAN :
            CalcChunkPadding("A", n, mt, chunk, oc)

SpecPad == Init /\ [][NextPad]_vars

(***************************************************************************)
(* SpecToken: the token of one channel against the wall clock              *)
(***************************************************************************)
NextToken ==
  \/ /\ Ready
     /\ Tick
  \/ /\ Ready
     /\ \E lt \in 0..MaxLifetime, id \in 1..2 : IssueToken("A", lt, id)
  \/ /\ Ready
     /\ TokenHasExpired("A")
  \/ /\ Ready
     /\ \E mt \in MessageChunkType : MakeSecurityHeader("A", mt)

SpecToken == Init /\ [][NextToken]_vars

(***************************************************************************)
(* Properties                                                              *)
(***************************************************************************)
Supported == {"Basic128Rsa15", "Basic256", "Basic256Sha256"}

LiveModes == {"None", "Sign", "SignAndEncrypt"}

\* the source buffer of the last pipeline call
LastSrc ==
  IF ~last.from_wire THEN last.src
  ELSE IF last.flip = <<>> THEN wire.buf
  ELSE Flip(wire.buf, last.flip[1], last.flip[2])

\* the last call was encrypt_and_sign / decrypt_and_verify on end c
LastEncrypt(c) == last.op = "encrypt_and_sign" /\ last.side = c

LastDecrypt(c) == last.op = "decrypt_and_verify" /\ last.side = c

\* the last pipeline call on end c got the sample chunk's ranges and a
\* destination as long as its source
LastWellFormed(c) ==
  /\ last.s = LayoutSignInfo(chan[c])
  /\ last.e = LayoutEncryptInfo(chan[c])
  /\ last.dst_len = Len(LastSrc)

\* C1 (as claimed): for every live mode and supported policy, with keys derived
\* on both ends of one handshake, encrypt_and_sign of a well-laid-out chunk x
\* succeeds, and decrypt_and_verify of its output on the peer, with the same
\* ranges, succeeds and yields exactly x.
C1_RoundTrip ==
  \A c \in Sides :
    ( /\ chan[c].security_policy \in Supported
      /\ chan[c].security_mode \in LiveModes
      /\ Established
      /\ chan[Peer(c)].their_keys = chan[c].keys )
    => /\ (LastEncrypt(c) /\ LastWellFormed(c)) => last.status = "Ok"
       /\ ( /\ LastDecrypt(Peer(c))
            /\ last.from_wire
            /\ last.flip = <<>>
            /\ LastWellFormed(Peer(c)) )
          => (last.status = "Ok" /\ last.dst = wire.x)

\* C2 (as claimed): after derive_keys the own keys are PRF(secret = their_nonce,
\* seed = nonce), the peer keys PRF(secret = nonce, seed = their_nonce), and the
\* two differ whenever the nonces differ.
C2_KeyRoles ==
  \A c \in Sides :
    (last.op = "derive_keys" /\ last.side = c)
    => LET ch == chan[c]
       IN /\ ch.keys = Some(make_secure_channel_keys(ch.security_policy,
                                                     ch.their_nonce, ch.nonce))
          /\ ch.their_keys = Some(make_secure_channel_keys(ch.security_policy,
                                                           ch.nonce, ch.their_nonce))
          /\ (ch.nonce # ch.their_nonce => ch.keys # ch.their_keys)

\* C3 (as claimed): with security_policy None, in each live mode,
\* encrypt_and_sign and decrypt_and_verify succeed with the output equal to the
\* input, and calc_chunk_padding returns 0; none of them fails or aborts.
C3_PolicyNoneNoOp ==
  \A c \in Sides :
    (chan[c].security_policy = "None" /\ chan[c].security_mode \in LiveModes)
    => /\ ((LastEncrypt(c) \/ LastDecrypt(c)) /\ last.dst_len = Len(LastSrc))
          => (last.status = "Ok" /\ last.dst = LastSrc)
       /\ (last.op = "calc_chunk_padding" /\ last.side = c)
          => (last.status = "Ok" /\ last.ret = 0)

\* C3 (amended): with security_policy None, calc_chunk_padding returns 0 in
\* every mode; in mode None encrypt_and_sign and decrypt_and_verify succeed with
\* the output equal to the input (destination as long as the source); in mode
\* Sign and SignAndEncrypt they abort and leave the destination untouched.
C3_PolicyNone ==
  \A c \in Sides :
    chan[c].security_policy = "None"
    => /\ (last.op = "calc_chunk_padding" /\ last.side = c)
          => (last.status = "Ok" /\ last.ret = 0)
       /\ ( /\ LastEncrypt(c) \/ LastDecrypt(c)
            /\ chan[c].security_mode = "None"
            /\ last.dst_len = Len(LastSrc) )
          => (last.status = "Ok" /\ last.dst = LastSrc)
       /\ ( /\ LastEncrypt(c) \/ LastDecrypt(c)
            /\ chan[c].security_mode \in {"Sign", "SignAndEncrypt"} )
          => (last.status = "panic" /\ last.dst = Zeros(last.dst_len))

C3_Witness ==
  /\ LastDecrypt("B")
  /\ chan["B"].security_policy = "None"
  /\ chan["B"].security_mode = "Sign"
  /\ last.status = "panic"
  /\ last.dst_len = Len(LastSrc)

\* C4: in Sign mode with a supported policy, a chunk the peer signed verifies
\* when it arrives unmodified, and fails with BadApplicationSignatureInvalid
\* when any single bit inside its signed range was inverted in transit.
C4_TamperDetected ==
  \A c \in Sides :
    ( /\ LastDecrypt(c)
      /\ last.from_wire
      /\ chan[c].security_mode = "Sign"
      /\ chan[c].security_policy \in Supported
      /\ chan[c].their_keys = chan[Peer(c)].keys )
    => IF last.flip = <<>>
       THEN last.status = "Ok"
       ELSE (last.flip[1] >= last.s[1] /\ last.flip[1] < last.s[2])
            => last.status = "BadApplicationSignatureInvalid"

C4_Witness ==
  /\ LastDecrypt("B")
  /\ last.from_wire
  /\ chan["B"].security_mode = "Sign"
  /\ chan["B"].security_policy = "Basic256Sha256"
  /\ last.flip = <<last.s[2] - 1, 7>>
  /\ last.status = "BadApplicationSignatureInvalid"

\* C5: set_their_nonce returns BadNonceInvalid exactly when the byte string has
\* no value, or signing/encryption is enabled and its length differs from the
\* policy's symmetric key size; otherwise it succeeds and their_nonce is the
\* given bytes; on rejection their_nonce is left as it was.
C5_NonceResult ==
  \A c \in Sides :
    (last.op = "set_their_nonce" /\ last.side = c)
    => LET ch == chan[c]
           enabled == ch.security_policy # "None"
                      /\ ch.security_mode \in {"Sign", "SignAndEncrypt"}
           bad == IF ~IsSome(last.bs.value) THEN TRUE
                  ELSE enabled /\ Len(Unwrap(last.bs.value))
                                    # symmetric_key_size(ch.security_policy)
       IN /\ last.status = (IF bad THEN "BadNonceInvalid" ELSE "Ok")
          /\ ~bad => ch.their_nonce = Unwrap(last.bs.value)

C5_NonceKept ==
  \A c \in Sides :
    (last'.op = "set_their_nonce" /\ last'.side = c /\ last'.status # "Ok")
    => chan'[c].their_nonce = chan[c].their_nonce

C5_SetTheirNonce == []C5_NonceResult /\ [][C5_NonceKept]_vars

C5_Witness ==
  /\ last.op = "set_their_nonce"
  /\ last.status = "BadNonceInvalid"
  /\ IsSome(last.bs.value)
  /\ Len(Unwrap(last.bs.value)) = 32
  /\ Len(chan["A"].their_nonce) = 16

\* max_body_size by the formula, over the integers
MaxBodySizeExact(ch, kind, message_chunk_size) ==
  plain_block_size(ch.security_policy)
    * ((message_chunk_size
          - (MESSAGE_CHUNK_HEADER_SIZE + byte_len([kind |-> kind, token_id |-> 0]))
          - policy_symmetric_signature_size(ch.security_policy) - 1)
         \div cipher_block_size(ch.security_policy))
    - SEQUENCE_HEADER_SIZE

\* the max-body-size cap applies to the last calc_chunk_padding call
CapApplies(ch) ==
  /\ last.message_chunk_size # 0
  /\ MaxBodySizeExact(ch, last.kind, last.message_chunk_size) > 0
  /\ last.bytes_to_write > MaxBodySizeExact(ch, last.kind, last.message_chunk_size)

C7_BlockGuard ==
  \A c \in Sides :
    ( /\ LastEncrypt(c) \/ LastDecrypt(c)
      /\ chan[c].security_mode = "SignAndEncrypt"
      /\ chan[c].security_policy \in Supported
      /\ (last.e[2] - last.e[1]) % 16 # 0 )
    => (last.status = "BadDecodingError" /\ last.dst = Zeros(last.dst_len))

C7_Witness ==
  /\ LastEncrypt("A")
  /\ chan["A"].security_mode = "SignAndEncrypt"
  /\ chan["A"].security_policy = "Basic256"
  /\ Established
  /\ (last.e[2] - last.e[1]) % 16 = 15
  /\ last.status = "BadDecodingError"

\* C8 (as claimed): token_has_expired() is false immediately after token
\* creation, false one second before token_created_at + token_lifetime and
\* true from then on.
C8_ExpiryAsClaimed ==
  \A c \in Sides :
    (last.op = "token_has_expired" /\ last.side = c)
    => LET ch == chan[c]
       IN /\ now = ch.token_created_at => ~last.flag
          /\ now = ch.token_created_at + ch.token_lifetime - 1 => ~last.flag
          /\ now >= ch.token_created_at + ch.token_lifetime => last.flag

\* C8 (amended): token_has_expired() is true exactly when
\* now >= token_created_at + token_lifetime: at creation time it is false only
\* if token_lifetime > 0 (a lifetime of 0, as new() sets it, is expired at
\* once), it is false one second before the boundary and true at it; while the
\* clock advances with the token unchanged, an expired token stays expired.
C8_ExpiryResult ==
  \A c \in Sides :
    (last.op = "token_has_expired" /\ last.side = c)
    => LET ch == chan[c]
       IN /\ (now = ch.token_created_at /\ ch.token_lifetime > 0) => ~last.flag
          /\ (now = ch.token_created_at /\ ch.token_lifetime = 0) => last.flag
          /\ now = ch.token_created_at + ch.token_lifetime - 1 => ~last.flag
          /\ now < ch.token_created_at + ch.token_lifetime => ~last.flag
          /\ now >= ch.token_created_at + ch.token_lifetime => last.flag

C8_StaysExpired ==
  \A c \in Sides :
    (token_has_expired(chan[c], now) /\ chan'[c] = chan[c] /\ now' >= now)
    => token_has_expired(chan'[c], now')

C8_Expiry == []C8_ExpiryResult /\ [][C8_StaysExpired]_vars

C8_Witness ==
  /\ last.op = "token_has_expired"
  /\ chan["A"].token_lifetime = MaxLifetime
  /\ chan["A"].token_created_at > 0
  /\ now = chan["A"].token_created_at + chan["A"].token_lifetime
  /\ last.flag

\* C9 (as claimed): with mode and policy not None, for every non-zero
\* message_chunk_size calc_chunk_padding returns a value, and that value is 0
\* exactly when max_body_size, computed over the integers, is positive and
\* bytes_to_write exceeds it.
C9_PaddingTotal ==
  \A c \in Sides :
    ( /\ last.op = "calc_chunk_padding"
      /\ last.side = c
      /\ chan[c].security_policy # "None"
      /\ chan[c].security_mode # "None"
      /\ last.message_chunk_size # 0 )
    => /\ last.status = "Ok"
       /\ (last.ret = 0) = CapApplies(chan[c])

\* C10: keys and their_keys are None after new(), each is Some exactly when
\* the other is, derive_keys leaves both Some, and no other operation changes
\* either.
C10_BothOrNeither ==
  \A c \in Sides :
    /\ IsSome(chan[c].keys) = IsSome(chan[c].their_keys)
    /\ last.op = "new" => ~IsSome(chan[c].keys)
    /\ (last.op = "derive_keys" /\ last.side = c) => IsSome(chan[c].keys)

C10_OnlyDeriveKeys ==
  \A c \in Sides :
    (chan'[c].keys # chan[c].keys \/ chan'[c].their_keys # chan[c].their_keys)
    => (last'.op = "derive_keys" /\ last'.side = c)

C10_KeyLifecycle == []C10_BothOrNeither /\ [][C10_OnlyDeriveKeys]_vars

C10_Witness ==
  /\ last.op = "set_their_nonce"
  /\ last.status = "Ok"
  /\ IsSome(chan["A"].keys)
  /\ IsSome(chan["A"].their_keys)
  /\ Unwrap(chan["A"].keys).signing.seed # chan["A"].their_nonce

\* C11: for the two ends of a channel with the same security policy, each
\* holding the other's nonce as their_nonce, once derive_keys has run on both,
\* the own keys of each end are the peer keys of the other: the signing key,
\* encrypting key and initialisation vector one end signs and encrypts with
\* (sign, encrypt read keys) are the ones the other end verifies and decrypts
\* with (verify, decrypt read their_keys), in both directions.
C11_PeerKeyAgreement ==
  \A c \in Sides :
    ( /\ IsSome(chan[c].keys) /\ IsSome(chan[c].their_keys)
      /\ IsSome(chan[Peer(c)].keys) /\ IsSome(chan[Peer(c)].their_keys)
      /\ chan[c].security_policy = chan[Peer(c)].security_policy
      /\ chan[c].nonce = chan[Peer(c)].their_nonce
      /\ chan[c].their_nonce = chan[Peer(c)].nonce )
    => /\ chan[c].keys = chan[Peer(c)].their_keys
       /\ chan[c].their_keys = chan[Peer(c)].keys
       /\ Unwrap(chan[c].keys).signing = Unwrap(chan[Peer(c)].their_keys).signing
       /\ Unwrap(chan[c].keys).encrypting
            = Unwrap(chan[Peer(c)].their_keys).encrypting
       /\ Unwrap(chan[c].keys).iv = Unwrap(chan[Peer(c)].their_keys).iv

C11_Witness ==
  /\ last.op = "derive_keys"
  /\ last.side = "B"
  /\ Established
  /\ chan["A"].security_policy = "Basic256Sha256"
  /\ chan["B"].security_policy = "Basic256Sha256"
  /\ chan["A"].security_mode = "SignAndEncrypt"
  /\ Len(chan["A"].nonce) = 32
  /\ chan["A"].nonce # chan["A"].their_nonce
  /\ chan["A"].nonce = chan["B"].their_nonce
  /\ chan["A"].their_nonce = chan["B"].nonce
  /\ chan["A"].keys # chan["A"].their_keys
  /\ chan["A"].keys = chan["B"].their_keys

====
